---------------------------- MODULE Spec2Model ----------------------------
(***************************************************************************)
(* Model of restore_joystick_xmls: the two file-tree restorers             *)
(* (bms_restore.py, dcs_restore.py) and the DirectInput GUID remapper      *)
(* (okb_update_directinput_guids.py).                                      *)
(*                                                                         *)
(* File names are sequences of one-character strings, so that the regular  *)
(* expressions, pathlib's stem/suffix rules and str.strip()/upper() are    *)
(* computed character by character as the code computes them.              *)
(***************************************************************************)
EXTENDS Integers, Sequences, FiniteSets, TLC

(***************************************************************************)
(* Characters.                                                             *)
(***************************************************************************)

\* re's \s and str.strip()/str.split() whitespace (the two that occur in names here)
IsSpace(c) == c \in {" ", "\t"}

\* the character class [0-9A-Fa-f-] of GUID_FILENAME_RE / GUID_DIFF_RE
IsGuidChar(c) ==
    c \in {"0", "1", "2", "3", "4", "5", "6", "7", "8", "9",
           "A", "B", "C", "D", "E", "F", "a", "b", "c", "d", "e", "f", "-"}

\* str.lower() / str.casefold() on the letters that occur in the model's names
LowerChar(c) ==
    CASE c = "A" -> "a" [] c = "B" -> "b" [] c = "D" -> "d" [] c = "F" -> "f"
      [] c = "I" -> "i" [] c = "L" -> "l" [] c = "M" -> "m" [] c = "N" -> "n"
      [] c = "O" -> "o" [] c = "S" -> "s" [] c = "T" -> "t" [] c = "U" -> "u"
      [] c = "X" -> "x" [] c = "J" -> "j" [] c = "P" -> "p" [] c = "Q" -> "q"
      [] OTHER -> c

\* str.upper() on the same letters
UpperChar(c) ==
    CASE c = "a" -> "A" [] c = "b" -> "B" [] c = "d" -> "D" [] c = "f" -> "F"
      [] c = "i" -> "I" [] c = "l" -> "L" [] c = "m" -> "M" [] c = "n" -> "N"
      [] c = "o" -> "O" [] c = "s" -> "S" [] c = "t" -> "T" [] c = "u" -> "U"
      [] c = "x" -> "X" [] c = "j" -> "J" [] c = "p" -> "P" [] c = "q" -> "Q"
      [] OTHER -> c

Lower(s) == [i \in 1..Len(s) |-> LowerChar(s[i])]
Upper(s) == [i \in 1..Len(s) |-> UpperChar(s[i])]

\* code points, for the order sorted() puts paths in
Code(c) ==
    CASE c = "\t" -> 9 [] c = " " -> 32 [] c = "-" -> 45 [] c = "." -> 46
      [] c = "0" -> 48 [] c = "1" -> 49 [] c = "2" -> 50 [] c = "3" -> 51
      [] c = "A" -> 65 [] c = "B" -> 66 [] c = "J" -> 74 [] c = "L" -> 76
      [] c = "M" -> 77 [] c = "X" -> 88
      [] c = "a" -> 97 [] c = "b" -> 98 [] c = "c" -> 99
      [] c = "d" -> 100 [] c = "e" -> 101
      [] c = "f" -> 102 [] c = "g" -> 103 [] c = "i" -> 105 [] c = "j" -> 106
      [] c = "k" -> 107 [] c = "l" -> 108 [] c = "m" -> 109 [] c = "o" -> 111
      [] c = "r" -> 114 [] c = "s" -> 115 [] c = "t" -> 116 [] c = "u" -> 117
      [] c = "x" -> 120 [] c = "y" -> 121 [] c = "{" -> 123 [] c = "}" -> 125

SetMin(S) == CHOOSE x \in S : \A y \in S : x <= y
SetMax(S) == CHOOSE x \in S : \A y \in S : x >= y

\* str.strip(): drop leading and trailing whitespace
Strip(s) ==
    LET keep == {i \in 1..Len(s) : ~IsSpace(s[i])}
    IN  IF keep = {} THEN <<>> ELSE SubSeq(s, SetMin(keep), SetMax(keep))

EndsWith(s, t) ==
    /\ Len(s) >= Len(t)
    /\ SubSeq(s, Len(s) - Len(t) + 1, Len(s)) = t

\* str.rfind("."), 1-based; 0 when there is no dot
LastDot(s) ==
    LET dots == {i \in 1..Len(s) : s[i] = "."}
    IN  IF dots = {} THEN 0 ELSE SetMax(dots)

\* pathlib PurePath.stem of a bare file name: up to the last dot, unless that dot
\* is the first or the last character
PathStem(name) ==
    LET p == LastDot(name)
    IN  IF 1 < p /\ p < Len(name) THEN SubSeq(name, 1, p - 1) ELSE name

\* pathlib PurePath.suffix of a bare file name
PathSuffix(name) ==
    LET p == LastDot(name)
    IN  IF 1 < p /\ p < Len(name) THEN SubSeq(name, p, Len(name)) ELSE <<>>

(***************************************************************************)
(* The GUID file-name patterns and the key normalizers.                    *)
(***************************************************************************)

\* {36} in GUID_FILENAME_RE and GUID_DIFF_RE
GuidLen == 36

XML == <<".", "x", "m", "l">>
DIFF_LUA == <<".", "d", "i", "f", "f", ".", "l", "u", "a">>

\* length of what follows the stem group's whitespace: "{" GUID "}" suffix
TailLen(suffix) == 1 + GuidLen + 1 + Len(suffix)

\* ^(?P<stem>.*)\s+\{[0-9A-Fa-f-]{36}\}<suffix>$ with re.match.  The tail has a
\* fixed length, so the pattern matches exactly when the last TailLen characters
\* have that form and the character before them is whitespace; "." does not
\* match a newline.
MatchesGuidRe(name, suffix) ==
    LET n == Len(name)
        t == TailLen(suffix)
    IN  /\ n >= t + 1
        /\ IsSpace(name[n - t])
        /\ name[n - t + 1] = "{"
        /\ \A i \in 1..GuidLen : IsGuidChar(name[n - t + 1 + i])
        /\ name[n - Len(suffix)] = "}"
        /\ SubSeq(name, n - Len(suffix) + 1, n) = suffix
        /\ \A i \in 1..(n - t - 1) : name[i] # "\n"

\* m.group("stem"): the greedy .* leaves one whitespace character to \s+
StemGroup(name, suffix) == SubSeq(name, 1, Len(name) - TailLen(suffix) - 1)

GUID_FILENAME_RE(name) == MatchesGuidRe(name, XML)
GUID_DIFF_RE(name) == MatchesGuidRe(name, DIFF_LUA)

normalize_key(xml_filename) ==
    IF GUID_FILENAME_RE(xml_filename)
    THEN Strip(StemGroup(xml_filename, XML))
    ELSE Strip(PathStem(xml_filename))

normalize_guid_filename_stemmed(name) ==
    IF GUID_DIFF_RE(name)
    THEN Strip(StemGroup(name, DIFF_LUA))
    ELSE Strip(PathStem(name))

normalize_guid_filename(name) ==
    IF GUID_DIFF_RE(name)
    THEN Strip(StemGroup(name, DIFF_LUA))
    ELSE name


(***************************************************************************)
(* File names and trees of the restorers.                                  *)
(***************************************************************************)

Guid(c) == [i \in 1..GuidLen |-> IF i \in {9, 14, 19, 24} THEN "-" ELSE c]

GuidName(stem, c, suffix) == stem \o <<" ", "{">> \o Guid(c) \o <<"}">> \o suffix

\* the file names that occur in the trees, by id
NameOf(id) ==
    CASE id = "A_G1_xml" -> GuidName(<<"A">>, "1", XML)
      [] id = "A_G2_xml" -> GuidName(<<"A">>, "2", XML)
      [] id = "A_xml"    -> <<"A">> \o XML
      [] id = "B_G1_xml" -> GuidName(<<"B">>, "1", XML)
      [] id = "A_G1_lua" -> GuidName(<<"A">>, "1", DIFF_LUA)
      [] id = "A_G2_lua" -> GuidName(<<"A">>, "2", DIFF_LUA)
      [] id = "A_lua"    -> <<"A">> \o DIFF_LUA
      [] id = "B_G1_lua" -> GuidName(<<"B">>, "1", DIFF_LUA)

\* the last component of the folders that occur in the trees, by id
DirName(d) ==
    CASE d = "root"     -> <<".">>
      [] d = "Joystick" -> <<"J", "o", "y", "s", "t", "i", "c", "k">>
      [] d = "keyboard" -> <<"k", "e", "y", "b", "o", "a", "r", "d">>

JOYSTICK == <<"j", "o", "y", "s", "t", "i", "c", "k">>
ZIP == <<".", "z", "i", "p">>

Slot(d, id) == [dir |-> d, id |-> id]

\* where a backup file may be, per program: bms_restore works on one flat
\* folder, dcs_restore on a tree of folders
BackupSlots(p) ==
    IF p = "bms"
    THEN {Slot("root", id) : id \in {"A_G1_xml", "A_G2_xml", "B_G1_xml", "A_G1_lua"}}
    ELSE {Slot("Joystick", id) : id \in {"A_G1_lua", "A_G2_lua", "A_lua", "B_G1_lua"}}
         \cup {Slot("keyboard", "A_G1_lua")}

\* where a live file may be before the first run
LiveSlots(p) ==
    IF p = "bms"
    THEN {Slot("root", id) : id \in {"A_G2_xml", "A_xml"}}
    ELSE {Slot("Joystick", id) : id \in {"A_G1_lua", "A_G2_lua", "A_lua"}}

Contents == {"X", "Y"}
Mtimes == {1, 2}
PARTIAL == "partial"

\* bound of the model: files in the two trees together
MaxFiles == 3

File(c, t) == [content |-> c, mtime |-> t]

Trees(slots, n) ==
    UNION {[D -> {File(c, t) : c \in Contents, t \in Mtimes}] :
           D \in {D \in SUBSET slots : Cardinality(D) <= n}}

(***************************************************************************)
(* Order of enumeration.                                                   *)
(***************************************************************************)

\* a < b as Python compares strings
LexLess(a, b) ==
    \E k \in 1..(Len(a) + 1) :
        /\ k <= Len(b)
        /\ \A i \in 1..(k - 1) : a[i] = b[i]
        /\ \/ k = Len(a) + 1
           \/ Code(a[k]) < Code(b[k])

AllSlots == BackupSlots("bms") \cup LiveSlots("bms") \cup BackupSlots("dcs") \cup LiveSlots("dcs")

\* f, tabulated once: TLC evaluates [x \in S |-> e][a] by evaluating e anew at
\* each application, and f @@ <<>> is the same function with its values stored
Table(f) == f @@ <<>>

\* whether path s is before path t in the order of sorted(): by folder, then by
\* file name (Windows paths compare case-folded)
PathOrder ==
    Table([st \in AllSlots \X AllSlots |->
        \/ LexLess(Lower(DirName(st[1].dir)), Lower(DirName(st[2].dir)))
        \/ /\ st[1].dir = st[2].dir
           /\ LexLess(Lower(NameOf(st[1].id)), Lower(NameOf(st[2].id)))])

PathLess(s, t) == PathOrder[<<s, t>>]

\* sorted(S)
Sorted(S) ==
    CHOOSE q \in [1..Cardinality(S) -> S] :
        \A i, j \in 1..Cardinality(S) : i < j => PathLess(q[i], q[j])


(***************************************************************************)
(* State.                                                                  *)
(***************************************************************************)

VARIABLES
    prog,             \* which restorer runs: "bms" (bms_restore) or "dcs" (dcs_restore)
    copy_if_missing,  \* Settings.copy_if_missing
    dry_run,          \* the answer to ask_run_mode (dcs_restore)
    backupRoot,       \* settings.backup_dir exists
    backupParent,     \* settings.backup_dir.parent exists
    liveRoot,         \* settings.bms_config_dir / settings.dcs_input_dir exists
    backup,           \* files of the backup tree: slot -> [content, mtime]
    live,             \* files of the live tree: slot -> [content, mtime]
    liveDirs,         \* folders that exist below the live root
    liveTmp,          \* live slots whose sibling "<name>.tmp" exists
    iterdir,          \* the order in which the file system lists a folder
    pc,               \* position of the run
    todo,             \* what the loop has still to visit
    bms_index,        \* the live files build_index(bms_dir) saw
    restored, identical, missing, copied_missing,
    onto,             \* the live files a backup file was restored onto in this run
    summary,          \* the [SUMMARY] block was printed
    clock,            \* the time a file written now is stamped with
    second,           \* this is the second run in a row
    zips,             \* snapshot archives written in this run
    mkdirs,           \* directories created outside the loop in this run
    wrote,            \* the live tree was written to in this run
    last,             \* what the last loop step did
    first,            \* how the first run ended (set when the second begins)
    norm,             \* a file name and the key a normalizer gave it
    attached,         \* the DirectInput devices that are attached
    device_map,       \* what enumerate_directinput_devices returned
    doc,              \* the DirectInput.json file under the OpenKneeboard root
    plan              \* what build_plan_for_file returned

okb == <<attached, device_map, doc, plan>>
config == <<prog, copy_if_missing, backup, liveRoot, iterdir, norm, okb>>
counters == <<restored, identical, missing, copied_missing, onto>>
tree == <<live, liveDirs, liveTmp>>
vars == <<prog, copy_if_missing, dry_run, backupRoot, backupParent, liveRoot, backup,
          live, liveDirs, liveTmp, iterdir, pc, todo, bms_index, restored, identical, missing,
          copied_missing, onto, summary, clock, second, zips, mkdirs, wrote, last, first,
          norm, attached, device_map, doc, plan>>

\* how a run ended: where, in which mode, whether it wrote to what it works on,
\* and what it counted
NoFirst == [pc |-> "none", dry |-> FALSE, wrote |-> FALSE,
            restored |-> 0, identical |-> 0, missing |-> 0]
FirstRun == [pc |-> pc, dry |-> dry_run, wrote |-> wrote,
             restored |-> restored, identical |-> identical, missing |-> missing]

NoSlot == Slot("none", "none")
Event(op, b, t, u) == [op |-> op, b |-> b, target |-> t, unlinkOk |-> u]
NoEvent == Event("none", NoSlot, NoSlot, TRUE)

(***************************************************************************)
(* Helpers of the two restorers.                                           *)
(***************************************************************************)

\* p.suffix.lower() == ".xml", of every slot
XmlSlots == Table([s \in AllSlots |-> Lower(PathSuffix(NameOf(s.id))) = XML])

IsXmlFile(s) == XmlSlots[s]

\* normalize_key(p.name) of every slot
BmsKey == Table([s \in AllSlots |-> normalize_key(NameOf(s.id))])

\* normalize_guid_filename(p.name) of every slot
DcsKey == Table([s \in AllSlots |-> normalize_guid_filename(NameOf(s.id))])

\* p.suffixes[-2:] == [".diff", ".lua"]: the name ends so, and what precedes is
\* not only leading dots (which pathlib strips before splitting)
HasDiffLuaSuffixes(name) ==
    /\ EndsWith(name, DIFF_LUA)
    /\ \E i \in 1..(Len(name) - Len(DIFF_LUA)) : name[i] # "."

\* list_xml_files(folder), as a set
list_xml_files(files) == {s \in DOMAIN files : IsXmlFile(s)}

RECURSIVE Dedup(_)
Dedup(q) ==
    IF q = <<>> THEN <<>>
    ELSE LET r == Dedup(SubSeq(q, 1, Len(q) - 1))
             x == q[Len(q)]
         IN  IF \E i \in 1..Len(r) : r[i] = x THEN r ELSE Append(r, x)

\* the keys of build_index(folder), in the order dict.items() yields them
IndexKeys(files) ==
    LET q == Sorted(list_xml_files(files))
    IN  Dedup([i \in 1..Len(q) |-> BmsKey[q[i]]])

\* build_index(folder)[key], as a set
IndexEntry(xmls, key) == {s \in xmls : BmsKey[s] = key}

Newest(S, files) == {s \in S : \A t \in S : files[t].mtime <= files[s].mtime}

\* choose_target on a list in sorted order (bms_restore): max() keeps the first
\* of the newest
choose_target_first(S, files) ==
    {s \in Newest(S, files) : \A t \in Newest(S, files) : t = s \/ PathLess(s, t)}

\* choose_target on a list in iterdir() order (dcs_restore): max() keeps the
\* first of the newest in the order the file system lists the folder
choose_target(S, files) ==
    {s \in Newest(S, files) :
        \A t \in Newest(S, files) :
            t = s \/ (IF iterdir = "ascending" THEN PathLess(s, t) ELSE PathLess(t, s))}

\* p.suffixes[-2:] == [".diff", ".lua"], of every slot
DiffLuaSlots == Table([s \in AllSlots |-> HasDiffLuaSuffixes(NameOf(s.id))])

\* whether a backup slot passes the filters at the head of restore_dcs's loop
DcsFiltered ==
    Table([b \in AllSlots |->
        /\ Lower(PathSuffix(NameOf(b.id))) # ZIP
        /\ DiffLuaSlots[b]
        /\ GUID_DIFF_RE(NameOf(b.id))
        /\ Lower(DirName(b.dir)) = JOYSTICK])

PassesDcsFilter(b) == DcsFiltered[b]

CandidatesNone(files, d, key) == {}

\* the candidates restore_dcs collects in the target folder
Candidates(files, d, key) ==
    {s \in DOMAIN files : s.dir = d /\ DiffLuaSlots[s] /\ DcsKey[s] = key}

\* hb == ht: equal SHA-256 digests, that is equal bytes
SameHash(bf, tf) == bf.content = tf.content

ShouldCopyAlways(flag) == TRUE

\* if settings.copy_if_missing
ShouldCopy(flag) == flag

ReplaceDestBackupName(b, target) == Slot(target.dir, b.id)

\* os.replace(tmp, target): the path the new bytes end up under
ReplaceDest(b, target) == target

TmpLeftNoCleanup(existed, unlinkOk) == existed

\* the finally block: the .tmp sibling is unlinked when it exists, and an OSError
\* of the unlink is swallowed
TmpLeft(existed, unlinkOk) == existed /\ ~unlinkOk


(***************************************************************************)
(* The parts of the state a program leaves alone.                          *)
(***************************************************************************)

\* no file name has been normalized
NoNorm == [fn |-> "none", parts |-> <<>>, name |-> <<>>, key |-> <<>>, bare_key |-> <<>>]

\* build_plan_for_file's None
None == [found |-> FALSE, changes |-> <<>>, new_devices |-> <<>>]

\* rglob found no DirectInput.json
NoDoc == [state |-> "absent", Devices |-> <<>>]

\* the remapper does not run
OkbIdle ==
    /\ attached = <<>>
    /\ device_map = <<>>
    /\ doc = NoDoc
    /\ plan = None

(***************************************************************************)
(* Initial states: a configuration, a backup tree and a live tree.         *)
(***************************************************************************)

EmptyTree == [s \in {} |-> File("X", 1)]

DirsOf(files) == {s.dir : s \in DOMAIN files}

Init ==
    /\ prog \in {"bms", "dcs"}
    /\ copy_if_missing \in BOOLEAN
    /\ dry_run = FALSE
    /\ backupRoot \in BOOLEAN
    /\ backupParent \in (IF backupRoot THEN {TRUE} ELSE BOOLEAN)
    /\ liveRoot \in BOOLEAN
    /\ backup \in (IF backupRoot THEN Trees(BackupSlots(prog), MaxFiles) ELSE {EmptyTree})
    /\ live \in (IF liveRoot
                 THEN Trees(LiveSlots(prog), MaxFiles - Cardinality(DOMAIN backup))
                 ELSE {EmptyTree})
    /\ liveDirs \in
           (IF ~liveRoot THEN {{}}
            ELSE IF prog = "bms" THEN {{"root"}}
            ELSE {D \in SUBSET {"Joystick"} : DirsOf(live) \subseteq D})
    /\ liveTmp = {}
    /\ iterdir \in (IF prog = "dcs" THEN {"ascending", "descending"} ELSE {"ascending"})
    /\ pc = "start"
    /\ todo = <<>>
    /\ bms_index = {}
    /\ restored = 0 /\ identical = 0 /\ missing = 0 /\ copied_missing = 0
    /\ onto = {}
    /\ summary = FALSE
    /\ clock = SetMax(Mtimes) + 1
    /\ second = FALSE
    /\ zips = 0
    /\ mkdirs = 0
    /\ wrote = FALSE
    /\ last = NoEvent
    /\ first = NoFirst
    /\ norm = NoNorm
    /\ OkbIdle

(***************************************************************************)
(* main, up to the restore pass.                                           *)
(***************************************************************************)

\* bms_restore.main 195-207 / dcs_restore.main 284-293: the settings are read;
\* bms_restore checks the live root, dcs_restore asks for the mode
Start ==
    /\ pc = "start"
    /\ IF prog = "bms"
       THEN /\ dry_run' = FALSE
            /\ pc' = IF liveRoot THEN "zip" ELSE "failed"
       ELSE /\ dry_run' \in BOOLEAN
            /\ pc' = IF dry_run' THEN "restore" ELSE "zip"
    /\ UNCHANGED <<config, backupRoot, backupParent, tree, todo, bms_index, counters,
                   summary, clock, second, zips, mkdirs, wrote, last, first>>

\* make_zip_of_bms_config / dcs_restore.main 293-302 with zip_entire_folder:
\* the destination folder is created when absent, then the archive is written
\* (os.walk of an absent source yields nothing, so the archive is then empty).
\* Writing the archive may fail.  zip_destination is the setting of bms_restore
\* that puts the archive in the backup folder or in the live folder.
Zip ==
    /\ pc = "zip"
    /\ \E zip_destination \in
              (IF prog = "bms" THEN {"backup_dir", "bms_config_dir"} ELSE {"parent"}) :
          IF zip_destination = "backup_dir"
          THEN /\ backupRoot' = TRUE
               /\ backupParent' = TRUE
               /\ mkdirs' = IF backupRoot THEN mkdirs ELSE mkdirs + 1
          ELSE IF zip_destination = "parent"
          THEN /\ backupParent' = TRUE
               /\ mkdirs' = IF backupParent THEN mkdirs ELSE mkdirs + 1
               /\ UNCHANGED backupRoot
          ELSE UNCHANGED <<backupRoot, backupParent, mkdirs>>
    /\ \E ok \in BOOLEAN :
          IF ok THEN zips' = zips + 1 /\ pc' = "restore"
                ELSE zips' = zips /\ pc' = "crashed"
    /\ UNCHANGED <<config, dry_run, tree, todo, bms_index, counters, summary, clock,
                   second, wrote, last, first>>

\* restore_from_backups 125-139 / restore_dcs 120-134: the roots are checked, the
\* counters start at 0 and the backup side is enumerated
Enter ==
    /\ pc = "restore"
    /\ IF ~backupRoot
       THEN /\ pc' = IF prog = "bms" THEN "done" ELSE "failed"
            /\ UNCHANGED <<todo, bms_index, counters>>
       ELSE IF ~liveRoot
       THEN /\ pc' = "failed"
            /\ UNCHANGED <<todo, bms_index, counters>>
       ELSE /\ pc' = "loop"
            /\ restored' = 0 /\ identical' = 0 /\ missing' = 0 /\ copied_missing' = 0
            /\ onto' = {}
            /\ IF prog = "bms"
               THEN /\ todo' = IndexKeys(backup)
                    /\ bms_index' = list_xml_files(live)
               ELSE /\ todo' = Sorted(DOMAIN backup)
                    /\ bms_index' = {}
    /\ UNCHANGED <<config, dry_run, backupRoot, backupParent, tree, summary, clock,
                   second, zips, mkdirs, wrote, last, first>>


(***************************************************************************)
(* One step of the loop, per decision.                                     *)
(***************************************************************************)

\* a backup file the filters of restore_dcs pass over
Skipped(b) ==
    /\ last' = Event("skip", b, NoSlot, TRUE)
    /\ UNCHANGED <<tree, counters, pc, clock, wrote>>

\* no live candidate (or no live folder): counted as missing, and the backup file
\* is copied to dest with shutil.copy2 (content and mtime) when the setting asks
\* for it.  A copy2 that fails may leave a partly written dest.
NoTarget(b, dest) ==
    /\ missing' = missing + 1
    /\ UNCHANGED <<restored, identical, liveTmp, onto>>
    /\ IF ShouldCopy(copy_if_missing)
       THEN /\ liveDirs' = liveDirs \cup {dest.dir}
            /\ wrote' = TRUE
            /\ \E fault \in {"none", "copy2", "copy2_partial"} :
                  IF fault = "none"
                  THEN /\ pc' = pc
                       /\ live' = (dest :> backup[b]) @@ live
                       /\ clock' = clock
                       /\ copied_missing' =
                              IF prog = "dcs" THEN copied_missing + 1 ELSE copied_missing
                       /\ last' = Event("copied", b, dest, TRUE)
                  ELSE /\ pc' = "crashed"
                       /\ live' = IF fault = "copy2_partial"
                                  THEN (dest :> File(PARTIAL, clock)) @@ live
                                  ELSE live
                       /\ clock' = IF fault = "copy2_partial" THEN clock + 1 ELSE clock
                       /\ UNCHANGED copied_missing
                       /\ last' = Event("fault_copy2", b, dest, TRUE)
       ELSE /\ last' = Event("missing", b, NoSlot, TRUE)
            /\ UNCHANGED <<live, liveDirs, copied_missing, pc, clock, wrote>>

\* the finally block after a failure: whether "<target>.tmp" is there afterwards
Cleanup(target, existed, unlinkOk) ==
    IF TmpLeft(existed, unlinkOk) THEN liveTmp \cup {target} ELSE liveTmp \ {target}

\* a live candidate was chosen: the digests are compared and, when they differ,
\* the backup's bytes are written to "<target>.tmp" (shutil.copyfile) and the
\* .tmp is moved over the target (os.replace); the finally block removes a
\* .tmp that is still there.  In a dry run nothing is written, but the finally
\* block runs all the same.  Reading a file for its digest, copyfile (which may
\* have created the .tmp or not) and os.replace may fail.
Matched(b, target, dry) ==
    /\ UNCHANGED <<missing, copied_missing, liveDirs>>
    /\ \/ /\ pc' = "crashed"
          /\ last' = Event("fault_hash", b, target, TRUE)
          /\ UNCHANGED <<live, liveTmp, restored, identical, onto, clock, wrote>>
       \/ /\ SameHash(backup[b], live[target])
          /\ identical' = identical + 1
          /\ last' = Event("identical", b, target, TRUE)
          /\ UNCHANGED <<live, liveTmp, restored, onto, pc, clock, wrote>>
       \/ /\ ~SameHash(backup[b], live[target])
          /\ dry
          /\ restored' = restored + 1
          /\ \E unlinkOk \in (IF target \in liveTmp THEN BOOLEAN ELSE {TRUE}) :
                /\ liveTmp' = Cleanup(target, target \in liveTmp, unlinkOk)
                /\ last' = Event("would_restore", b, target, unlinkOk)
          /\ wrote' = (wrote \/ liveTmp' # liveTmp)
          /\ UNCHANGED <<live, identical, onto, pc, clock>>
       \/ /\ ~SameHash(backup[b], live[target])
          /\ ~dry
          /\ \E fault \in {"none", "copyfile", "copyfile_partial", "replace"} :
                IF fault = "none"
                THEN /\ restored' = restored + 1
                     /\ live' = (ReplaceDest(b, target) :> File(backup[b].content, clock))
                                    @@ live
                     /\ liveTmp' = liveTmp \ {target}
                     /\ onto' = onto \cup {target}
                     /\ clock' = clock + 1
                     /\ wrote' = TRUE
                     /\ last' = Event("restored", b, target, TRUE)
                     /\ UNCHANGED <<identical, pc>>
                ELSE LET existed == fault # "copyfile" \/ target \in liveTmp
                     IN  /\ pc' = "crashed"
                         /\ \E unlinkOk \in (IF existed THEN BOOLEAN ELSE {TRUE}) :
                               /\ liveTmp' = Cleanup(target, existed, unlinkOk)
                               /\ last' = Event(IF fault = "replace" THEN "fault_replace"
                                                ELSE "fault_copyfile", b, target, unlinkOk)
                         /\ wrote' = (wrote \/ fault # "copyfile")
                         /\ UNCHANGED <<live, restored, identical, onto, clock>>

\* restore_from_backups 141-177: one backup key
BmsStep ==
    /\ prog = "bms"
    /\ pc = "loop"
    /\ todo # <<>>
    /\ LET key == Head(todo)
           backup_files == IndexEntry(list_xml_files(backup), key)
           targets == IndexEntry(bms_index, key)
       IN  \E backup_file \in choose_target_first(backup_files, backup) :
              IF targets = {}
              THEN NoTarget(backup_file, Slot("root", backup_file.id))
              ELSE \E target \in choose_target_first(targets, live) :
                      Matched(backup_file, target, FALSE)
    /\ todo' = Tail(todo)
    /\ UNCHANGED <<config, dry_run, backupRoot, backupParent, bms_index, summary,
                   second, zips, mkdirs, first>>

\* restore_dcs 134-219: one backup file
DcsStep ==
    /\ prog = "dcs"
    /\ pc = "loop"
    /\ todo # <<>>
    /\ LET backup_file == Head(todo)
           key == DcsKey[backup_file]
           candidates == Candidates(live, backup_file.dir, key)
           dest == Slot(backup_file.dir, backup_file.id)
       IN  IF ~PassesDcsFilter(backup_file)
           THEN Skipped(backup_file)
           ELSE IF backup_file.dir \notin liveDirs
           THEN NoTarget(backup_file, dest)
           ELSE IF candidates = {}
           THEN NoTarget(backup_file, dest)
           ELSE \E target_file \in choose_target(candidates, live) :
                   Matched(backup_file, target_file, dry_run)
    /\ todo' = Tail(todo)
    /\ UNCHANGED <<config, dry_run, backupRoot, backupParent, bms_index, summary,
                   second, zips, mkdirs, first>>

\* the [SUMMARY] block after the loop
Summary ==
    /\ pc = "loop"
    /\ todo = <<>>
    /\ pc' = "done"
    /\ summary' = TRUE
    /\ UNCHANGED <<config, dry_run, backupRoot, backupParent, tree, todo, bms_index,
                   counters, clock, second, zips, mkdirs, wrote, last, first>>

Ended == pc \in {"done", "failed", "crashed"}

\* the program is started a second time, on the trees the first run left
RunAgain ==
    /\ Ended
    /\ ~second
    /\ second' = TRUE
    /\ first' = FirstRun
    /\ pc' = "start"
    /\ todo' = <<>>
    /\ bms_index' = {}
    /\ restored' = 0 /\ identical' = 0 /\ missing' = 0 /\ copied_missing' = 0
    /\ onto' = {}
    /\ summary' = FALSE
    /\ zips' = 0
    /\ mkdirs' = 0
    /\ wrote' = FALSE
    /\ last' = NoEvent
    /\ UNCHANGED <<config, dry_run, backupRoot, backupParent, tree, clock>>

Next == Start \/ Zip \/ Enter \/ BmsStep \/ DcsStep \/ Summary \/ RunAgain

Spec == Init /\ [][Next]_vars


(***************************************************************************)
(* The key normalizers on file names of every shape.                       *)
(***************************************************************************)

restorer == <<prog, copy_if_missing, backupParent, backup, tree, iterdir, todo,
              bms_index, counters, summary, clock, last>>
run == <<dry_run, backupRoot, liveRoot, pc, second, zips, mkdirs, wrote, first>>

\* the restorers do not run
RestorerIdle ==
    /\ prog = "none"
    /\ copy_if_missing = FALSE
    /\ backupParent = TRUE
    /\ backup = EmptyTree
    /\ live = EmptyTree
    /\ liveDirs = {}
    /\ liveTmp = {}
    /\ iterdir = "ascending"
    /\ todo = <<>>
    /\ bms_index = {}
    /\ restored = 0 /\ identical = 0 /\ missing = 0 /\ copied_missing = 0
    /\ onto = {}
    /\ summary = FALSE
    /\ clock = SetMax(Mtimes) + 1
    /\ last = NoEvent

\* no program runs
RunIdle ==
    /\ dry_run = FALSE
    /\ backupRoot = TRUE
    /\ liveRoot = TRUE
    /\ pc = "start"
    /\ second = FALSE
    /\ zips = 0
    /\ mkdirs = 0
    /\ wrote = FALSE
    /\ first = NoFirst

\* a file name is a stem, whitespace, a braced text and an extension, each of
\* which may be missing or off the pattern
Stems == {<<"A">>, <<"B">>, <<" ", "A">>, <<"A", ".", "b">>}
Separators == {<<>>, <<" ">>, <<" ", "\t">>}
GuidTexts == {Guid("1"), Guid("F"), Guid("f")}
BadGuidTexts == {Guid("g"), Tail(Guid("1"))}
Braced(g) == <<"{">> \o g \o <<"}">>
Braces == {<<>>} \cup {Braced(g) : g \in GuidTexts \cup BadGuidTexts}
LUA == <<".", "l", "u", "a">>
Extensions == {XML, Upper(XML), DIFF_LUA, LUA, <<>>}
Parts == [stem : Stems, sep : Separators, guid : Braces, ext : Extensions]

JoinParts(parts) == parts.stem \o parts.sep \o parts.guid \o parts.ext

\* the name of the same device's file without a GUID
BareName(parts, suffix) == parts.stem \o suffix

\* build_index: normalize_key on a file name of the folder, and on the bare name
NormalizeKey ==
    /\ norm.fn = "none"
    /\ norm' = [norm EXCEPT !.fn = "normalize_key",
                            !.key = normalize_key(norm.name),
                            !.bare_key = normalize_key(BareName(norm.parts, XML))]
    /\ UNCHANGED <<restorer, run, okb>>

\* restore_dcs: normalize_guid_filename on a file name, and on the bare name
NormalizeGuidFilename ==
    /\ norm.fn = "none"
    /\ norm' = [norm EXCEPT !.fn = "normalize_guid_filename",
                            !.key = normalize_guid_filename(norm.name),
                            !.bare_key = normalize_guid_filename(BareName(norm.parts, DIFF_LUA))]
    /\ UNCHANGED <<restorer, run, okb>>

InitNorm ==
    /\ RestorerIdle
    /\ RunIdle
    /\ OkbIdle
    /\ \E parts \in Parts :
          norm = [fn |-> "none", parts |-> parts, name |-> JoinParts(parts),
                  key |-> <<>>, bare_key |-> <<>>]

NextNorm == NormalizeKey \/ NormalizeGuidFilename

SpecNorm == InitNorm /\ [][NextNorm]_vars


(***************************************************************************)
(* The DirectInput GUID remapper (okb_update_directinput_guids.py).        *)
(***************************************************************************)

\* bounds of the model: records in DirectInput.json, attached devices
MaxDevices == 2
MaxAttached == 2

GameController == "GameController"

\* the braced hexadecimal text as formatted, without .upper()
guid_to_string_lower(g) == Braced(g)

\* guid_to_string: the braced hexadecimal text, upper-cased
guid_to_string(g) == Upper(Braced(g))

\* " ".join(s.split())
JoinSplit(s) ==
    LET F[i \in 0..Len(s)] ==
            IF i = 0 THEN <<>>
            ELSE IF IsSpace(s[i]) THEN F[i - 1]
            ELSE IF i > 1 /\ IsSpace(s[i - 1]) /\ F[i - 1] # <<>>
                 THEN F[i - 1] \o <<" ", s[i]>>
            ELSE Append(F[i - 1], s[i])
    IN  F[Len(s)]

\* normalize_name with NORMALIZE_WHITESPACE and CASE_INSENSITIVE_NAMES
normalize_name(name) == Lower(JoinSplit(name))

\* the key of the callback cb: (kind, normalize_name(name))
DeviceKey(kind, name) == <<kind, normalize_name(name)>>

\* enumerate_directinput_devices: results.setdefault(key, []).append(guid), in
\* the order of enumeration
enumerate_directinput_devices(att) ==
    [k \in {DeviceKey(att[i].kind, att[i].name) : i \in DOMAIN att} |->
        LET Same(d) == DeviceKey(d.kind, d.name) = k
            ds == SelectSeq(att, Same)
        IN  [j \in 1..Len(ds) |-> guid_to_string(ds[j].guid)]]

\* device_map.get(key); None and [] are both "not matches"
Matches(dm, key) == IF key \in DOMAIN dm THEN dm[key] ELSE <<>>

\* a Devices entry; ID <<>> stands for a record without "ID", Kind "" and Name
\* <<>> for a missing or empty one
Rec(kind, name, id) == [dict |-> TRUE, Kind |-> kind, Name |-> name, ID |-> id]
NonDict == [dict |-> FALSE, Kind |-> "", Name |-> <<>>, ID |-> <<>>]
Pair(k, e) == [key |-> k, entry |-> e]

\* a Python dict as the sequence of its items: d[k] = e
Put(d, k, e) ==
    IF \E i \in DOMAIN d : d[i].key = k
    THEN [i \in DOMAIN d |-> IF d[i].key = k THEN Pair(k, e) ELSE d[i]]
    ELSE Append(d, Pair(k, e))

\* the entry is a record the registry knows: none of the three "continue"s
IsMatched(entry, dm) ==
    /\ entry.dict
    /\ entry.Kind # ""
    /\ entry.Name # <<>>
    /\ Matches(dm, DeviceKey(entry.Kind, entry.Name)) # <<>>

\* new_guid = matches[0]
NewGuid(entry, dm) == Matches(dm, DeviceKey(entry.Kind, entry.Name))[1]

\* build_plan_for_file 346-378: one turn of the loop over devices.items()
PlanStep(acc, item, dm) ==
    LET old_guid == item.key
        entry == item.entry
        old_id == IF entry.ID = <<>> THEN old_guid ELSE entry.ID
    IN  IF ~IsMatched(entry, dm)
        THEN [acc EXCEPT !.new_devices = Put(@, old_guid, entry)]
        ELSE LET new_guid == NewGuid(entry, dm)
                 old_key_u == Upper(old_guid)
                 old_id_u == Upper(old_id)
             IN  [changes |->
                     IF old_key_u # new_guid \/ old_id_u # new_guid
                     THEN Append(acc.changes,
                                 [kind |-> entry.Kind, name |-> entry.Name,
                                  from_key |-> old_key_u, from_id |-> old_id_u,
                                  to |-> new_guid])
                     ELSE acc.changes,
                  new_devices |->
                     Put(acc.new_devices, new_guid, [entry EXCEPT !.ID = new_guid])]

RECURSIVE PlanLoop(_, _, _, _)
PlanLoop(devices, i, acc, dm) ==
    IF i > Len(devices) THEN acc
    ELSE PlanLoop(devices, i + 1, PlanStep(acc, devices[i], dm), dm)

build_plan_for_file(file, dm) ==
    IF file.state # "ok" THEN None
    ELSE LET r == PlanLoop(file.Devices, 1, [changes |-> <<>>, new_devices |-> <<>>], dm)
         IN  IF r.changes = <<>> THEN None
             ELSE [found |-> TRUE, changes |-> r.changes, new_devices |-> r.new_devices]

\* what the model's documents and registries are made of
DeviceNames == {<<"P", " ", "a">>, <<"p", " ", " ", "a">>, <<"Q">>}
AttachedNames == {<<"P", " ", "a">>, <<"Q">>}
RawGuids == {<<"a">>, <<"b">>}
DocGuids == {Braced(<<"a">>), Braced(<<"A">>), Braced(<<"B">>)}

Entries ==
    {NonDict, Rec("", <<"Q">>, <<>>)}
    \cup {Rec(GameController, n, id) : n \in DeviceNames \cup {<<>>}, id \in DocGuids \cup {<<>>}}

\* the Devices objects of up to n records: a JSON object has each key once
Documents(n) ==
    UNION {{d \in [1..k -> {Pair(g, e) : g \in DocGuids, e \in Entries}] :
               \A i, j \in 1..k : d[i].key = d[j].key => i = j} : k \in 0..n}

\* the devices DirectInput enumerates: each instance GUID once
Attached(n) ==
    UNION {{a \in [1..k -> [kind : {GameController}, name : AttachedNames, guid : RawGuids]] :
               \A i, j \in 1..k : a[i].guid = a[j].guid => i = j} : k \in 0..n}

CORRUPT == [state |-> "corrupt", Devices |-> <<>>]
Doc(d) == [state |-> "ok", Devices |-> d]

InitOkb ==
    /\ RestorerIdle
    /\ norm = NoNorm
    /\ dry_run = FALSE
    /\ liveRoot \in BOOLEAN
    /\ backupRoot \in BOOLEAN
    /\ pc = "start"
    /\ second = FALSE
    /\ zips = 0
    /\ mkdirs = 0
    /\ wrote = FALSE
    /\ first = NoFirst
    /\ attached \in Attached(MaxAttached)
    /\ device_map = <<>>
    /\ doc \in (IF liveRoot
                THEN {NoDoc, CORRUPT} \cup {Doc(d) : d \in Documents(MaxDevices)}
                ELSE {NoDoc})
    /\ plan = None

\* main 392-393: load_ini, ask_mode
OkbStart ==
    /\ pc = "start"
    /\ IF ~liveRoot
       THEN /\ pc' = "failed"
            /\ UNCHANGED <<backupRoot, mkdirs, dry_run>>
       ELSE /\ backupRoot' = TRUE
            /\ mkdirs' = IF backupRoot THEN mkdirs ELSE mkdirs + 1
            /\ dry_run' \in BOOLEAN
            /\ pc' = "enumerate"
    /\ UNCHANGED <<restorer, norm, okb, liveRoot, second, zips, wrote, first>>

\* main 399: enumerate_directinput_devices, which raises RuntimeError when
\* DirectInput fails
OkbEnumerate ==
    /\ pc = "enumerate"
    /\ \E ok \in BOOLEAN :
          IF ok
          THEN device_map' = enumerate_directinput_devices(attached) /\ pc' = "scan"
          ELSE pc' = "crashed" /\ UNCHANGED device_map
    /\ UNCHANGED <<restorer, norm, attached, doc, plan, dry_run, backupRoot, liveRoot,
                   second, zips, mkdirs, wrote, first>>

\* main 402-421: the files are found and planned
OkbPlan ==
    /\ pc = "scan"
    /\ IF doc.state = "absent"
       THEN plan' = None /\ pc' = "done"
       ELSE /\ plan' = build_plan_for_file(doc, device_map)
            /\ pc' = IF plan'.found THEN "zip" ELSE "done"
    /\ UNCHANGED <<restorer, norm, attached, device_map, doc, dry_run, backupRoot,
                   liveRoot, second, zips, mkdirs, wrote, first>>

\* main 424-433: the ZIP backup of the files that will change
OkbZip ==
    /\ pc = "zip"
    /\ \E ok \in BOOLEAN :
          IF ok
          THEN zips' = zips + 1 /\ pc' = (IF dry_run THEN "done" ELSE "write")
          ELSE pc' = "crashed" /\ UNCHANGED zips
    /\ UNCHANGED <<restorer, norm, okb, dry_run, backupRoot, liveRoot, second, mkdirs,
                   wrote, first>>

\* main 435-440: p.write_text(json.dumps(new_data)); the file is opened for
\* writing, which truncates it, and then written
OkbWrite ==
    /\ pc = "write"
    /\ \E fault \in {"none", "open", "write"} :
          /\ doc' = CASE fault = "none" -> Doc(plan.new_devices)
                      [] fault = "open" -> doc
                      [] fault = "write" -> CORRUPT
          /\ wrote' = (fault # "open")
          /\ pc' = IF fault = "none" THEN "done" ELSE "crashed"
    /\ UNCHANGED <<restorer, norm, attached, device_map, plan, dry_run, backupRoot,
                   liveRoot, second, zips, mkdirs, first>>

\* the remapper is started a second time, on what the first run left
OkbRunAgain ==
    /\ Ended
    /\ ~second
    /\ second' = TRUE
    /\ first' = FirstRun
    /\ pc' = "start"
    /\ device_map' = <<>>
    /\ plan' = None
    /\ zips' = 0
    /\ mkdirs' = 0
    /\ wrote' = FALSE
    /\ UNCHANGED <<restorer, norm, attached, doc, dry_run, backupRoot, liveRoot>>

NextOkb == OkbStart \/ OkbEnumerate \/ OkbPlan \/ OkbZip \/ OkbWrite \/ OkbRunAgain

SpecOkb == InitOkb /\ [][NextOkb]_vars


(***************************************************************************)
(* Properties of the restorers.                                            *)
(***************************************************************************)

\* the step about to be taken is a step of the loop
InLoop == pc = "loop" /\ todo # <<>>

FaultOps == {"fault_hash", "fault_copy2", "fault_copyfile", "fault_replace"}

\* C1: when a non-dry-run pass has completed and a second pass runs on the
\* trees it left, the second pass ends with restored = 0.
C1_SecondPassRestoresNothing ==
    (second /\ first.pc = "done" /\ ~first.dry /\ pc = "done") => restored = 0

\* C2: a step that restores a key leaves the names of the live tree as they
\* were (the target keeps its own name, nothing appears under the backup's
\* name), leaves every other file alone, and gives the target the content of
\* the chosen backup file.
C2_RestoreKeepsIdentity ==
    [][(InLoop /\ last'.op = "restored") =>
          /\ DOMAIN live' = DOMAIN live
          /\ liveDirs' = liveDirs
          /\ last'.target \in DOMAIN live
          /\ live'[last'.target].content = backup[last'.b].content
          /\ \A s \in DOMAIN live \ {last'.target} : live'[s] = live[s]]_vars

\* a restore happened onto a live file whose name differs from the backup's
C2_Witness ==
    /\ last.op = "restored"
    /\ last.b.id # last.target.id
    /\ last.target \in DOMAIN live
    /\ live[last.target].content = backup[last.b].content

C4_DryRunMutatesNothing ==
    [][(prog = "dcs" /\ dry_run /\ InLoop) =>
          /\ live' = live
          /\ liveDirs' = liveDirs
          /\ liveTmp' = liveTmp]_vars

\* C5: the live tree is written to only after a snapshot archive was written in
\* the same run.
C5_SnapshotPrecedesMutation == wrote => zips > 0

\* C6: a failure in a step of the loop does not end the pass.
C6_FailureDoesNotAbortPass == last.op \in FaultOps => pc \in {"loop", "done"}

\* C7: a step that finds no live candidate while copy_if_missing is off, and a
\* step that finds the chosen candidate identical, change nothing in the live
\* tree; the first adds one to missing, the second one to identical.
C7_MissingAndIdenticalWriteNothing ==
    [][(InLoop /\ \/ (last'.op \in {"missing", "copied", "fault_copy2"} /\ ~copy_if_missing)
                  \/ last'.op = "identical") =>
          /\ live' = live
          /\ liveDirs' = liveDirs
          /\ liveTmp' = liveTmp
          /\ restored' = restored
          /\ copied_missing' = copied_missing
          /\ IF last'.op = "identical"
             THEN identical' = identical + 1 /\ missing' = missing
             ELSE missing' = missing + 1 /\ identical' = identical]_vars

\* one pass has found a key identical and then a key missing, without copying
C7_Witness ==
    /\ last.op = "missing"
    /\ ~copy_if_missing
    /\ identical > 0
    /\ missing > 0

\* C8: when the live root does not exist, the run fails before a directory is
\* created, an archive is written or the live tree is written to.
C8_MissingLiveRootFatalBeforeWork ==
    ~liveRoot => /\ zips = 0
                 /\ mkdirs = 0
                 /\ ~wrote


\* C11: a step that restores a backup file onto a live file finds that no
\* backup file was restored onto that live file earlier in the run.
C11_TargetMutatedAtMostOnce ==
    [][(InLoop /\ last'.op = "restored") => last'.target \notin onto]_vars

\* the semantic keys of the backup source: of the .xml files of the folder
\* (bms_restore), of the GUID-named .diff.lua files of each joystick folder
\* (dcs_restore)
BackupKeys ==
    IF prog = "bms"
    THEN {BmsKey[s] : s \in list_xml_files(backup)}
    ELSE {<<s.dir, DcsKey[s]>> : s \in {b \in DOMAIN backup : PassesDcsFilter(b)}}

\* C12: when a pass has completed, restored + identical + missing is the number
\* of semantic keys of the backup source, and copied_missing is at most missing.
C12_OneDecisionPerKey ==
    (pc = "done" /\ summary) =>
        /\ restored + identical + missing = Cardinality(BackupKeys)
        /\ copied_missing <= missing

\* C13: when a dry run of restore_dcs has completed without touching the live
\* tree and a live run on the same trees completes, the live run ends with the
\* restored, identical and missing the dry run ended with.
C13_DryRunCountsAsLiveRun ==
    (prog = "dcs" /\ second /\ first.pc = "done" /\ first.dry /\ ~first.wrote
                  /\ ~dry_run /\ pc = "done") =>
        /\ restored = first.restored
        /\ identical = first.identical
        /\ missing = first.missing

\* C17: a step that copies a backup file into the live tree, wholly or (when
\* the copy fails) in part, writes to a path that named no live file, and every
\* file that was in the live tree is there afterwards as it was.
C17_CopyNeverOverwrites ==
    [][(InLoop /\ last'.op \in {"copied", "fault_copy2"}) =>
          /\ last'.target \notin DOMAIN live
          /\ \A s \in DOMAIN live : s \in DOMAIN live' /\ live'[s] = live[s]]_vars

\* a backup file was copied in next to a live file that was there before
C17_Witness ==
    /\ last.op = "copied"
    /\ copy_if_missing
    /\ last.target \in DOMAIN live
    /\ live[last.target] = backup[last.b]
    /\ \E s \in DOMAIN live : s # last.target /\ s.dir = last.target.dir

(***************************************************************************)
(* Properties of the key normalizers.                                      *)
(***************************************************************************)

\* the parts make a name of the pattern '<stem> {<36-char GUID>}<suffix>'
IsGuidNamed(parts, suffix) ==
    /\ parts.sep # <<>>
    /\ parts.guid \in {Braced(g) : g \in GuidTexts}
    /\ parts.ext = suffix

SuffixOf(fn) == IF fn = "normalize_key" THEN XML ELSE DIFF_LUA

\* C9 as claimed: either normalizer gives a name of the pattern its trimmed
\* stem and any other name its trimmed self without the final extension, so
\* that the GUID-named file and the bare-named file of one stem have one key.
C9_KeyNormalization ==
    norm.fn # "none" =>
        /\ norm.key = IF IsGuidNamed(norm.parts, SuffixOf(norm.fn))
                      THEN Strip(norm.parts.stem)
                      ELSE Strip(PathStem(norm.name))
        /\ IsGuidNamed(norm.parts, SuffixOf(norm.fn)) => norm.bare_key = norm.key

\* C9 as amended: either normalizer gives a name of its pattern the trimmed
\* stem; any other name normalize_key gives its trimmed self without the final
\* extension and normalize_guid_filename gives it unchanged; so the GUID-named
\* and the bare-named file of one stem have one key under normalize_key, and
\* under normalize_guid_filename the bare-named file's key is its whole name.
C9_KeyNormalizationPerProgram ==
    /\ norm.fn = "normalize_key" =>
          /\ norm.key = IF IsGuidNamed(norm.parts, XML)
                        THEN Strip(norm.parts.stem)
                        ELSE Strip(PathStem(norm.name))
          /\ IsGuidNamed(norm.parts, XML) => norm.bare_key = norm.key
    /\ norm.fn = "normalize_guid_filename" =>
          /\ norm.key = IF IsGuidNamed(norm.parts, DIFF_LUA)
                        THEN Strip(norm.parts.stem)
                        ELSE norm.name
          /\ norm.bare_key = BareName(norm.parts, DIFF_LUA)
          /\ norm.bare_key # Strip(norm.parts.stem)

\* normalize_guid_filename gave "A {GUID}.diff.lua" the key "A", and would give
\* "A.diff.lua" itself
C9_Witness ==
    /\ norm.fn = "normalize_guid_filename"
    /\ IsGuidNamed(norm.parts, DIFF_LUA)
    /\ norm.key = <<"A">>
    /\ norm.bare_key = <<"A">> \o DIFF_LUA

(***************************************************************************)
(* Properties of the remapper.                                             *)
(***************************************************************************)

\* C10: in the document build_plan_for_file produced, every record of the file
\* that the registry matches is stored under the live GUID with its ID set to
\* that GUID, and no matched record is stored under another key or has another
\* ID.
C10_MatchedRecordsUnderLiveId ==
    (pc = "zip" /\ plan.found) =>
        /\ \A i \in DOMAIN doc.Devices :
              LET entry == doc.Devices[i].entry
              IN  IsMatched(entry, device_map) =>
                     \E j \in DOMAIN plan.new_devices :
                        /\ plan.new_devices[j].key = NewGuid(entry, device_map)
                        /\ plan.new_devices[j].entry =
                               [entry EXCEPT !.ID = NewGuid(entry, device_map)]
        /\ \A j \in DOMAIN plan.new_devices :
              LET item == plan.new_devices[j]
              IN  IsMatched(item.entry, device_map) =>
                     /\ item.key = NewGuid(item.entry, device_map)
                     /\ item.entry.ID = item.key

\* C14: every entry of the input Devices mapping that is not a mapping, lacks
\* Kind or Name, or has no match in the registry is in the output Devices
\* mapping under its original key with its original value.
C14_UnmatchedEntriesPassThrough ==
    (pc = "zip" /\ plan.found) =>
        \A i \in DOMAIN doc.Devices :
           ~IsMatched(doc.Devices[i].entry, device_map) =>
               \E j \in DOMAIN plan.new_devices : plan.new_devices[j] = doc.Devices[i]

\* C15: the output Devices mapping of build_plan_for_file has as many entries
\* as the input mapping: no two input records are written to one output key.
C15_NoRecordLost ==
    (pc = "zip" /\ plan.found) => Len(plan.new_devices) = Len(doc.Devices)

\* C16: build_plan_for_file on the new_data of a plan, with the same registry,
\* returns None; and a run that follows a completed replace run finds no plan,
\* writes no ZIP and rewrites no file.
C16_RemapperIdempotent ==
    /\ (pc = "zip" /\ plan.found) =>
          build_plan_for_file(Doc(plan.new_devices), device_map) = None
    /\ (second /\ first.pc = "done" /\ ~first.dry) =>
          ~plan.found /\ zips = 0 /\ ~wrote

\* a replace run rewrote the document, and the run after it has ended with
\* nothing to do
C16_Witness ==
    /\ second
    /\ first.pc = "done"
    /\ ~first.dry
    /\ first.wrote
    /\ pc = "done"
    /\ doc.state = "ok"
    /\ \E i \in DOMAIN doc.Devices : IsMatched(doc.Devices[i].entry, device_map)

=============================================================================
